---------------------------- MODULE Spec2Model ----------------------------
(***************************************************************************)
(* Teacher API (register / commonstudents / suspend /                     *)
(* retrievefornotifications): the controller handlers of ApiController and *)
(* the find-or-create helpers of the Teacher and Student entities, over a  *)
(* model of the `user` table (single-table inheritance, unique email) and  *)
(* of the `teacher_students` junction table.                               *)
(***************************************************************************)
EXTENDS Integers, Sequences, FiniteSets, TLC

(* ------------------------------ bounds --------------------------------- *)
\* longest `students` array of a register request
MaxStudentsLen == 2
\* longest `teacher` array of a commonstudents request
MaxTeachersLen == 2
\* number of requests that can be in flight at once (interleaved spec)
MaxInFlight == 2
\* number of requests started in one behaviour of the interleaved spec
MaxRequests == 3
\* longest `emails` array of a direct call of Student.findOrCreateByEmails
MaxEmailsLen == 2

(* --------------------------- request values ---------------------------- *)
\* emails as they are stored (lowercase)
LowerEmails == {"t1@teacher.com", "t2@teacher.com", "s1@student.com"}
\* an email written in upper case by a client
UpperEmails == {"T1@TEACHER.COM"}
Emails == LowerEmails \cup UpperEmails
\* a string the isEmail() validator rejects
NotEmail == "s1@.com"
ReqStrings == Emails \cup {NotEmail}
\* a second student, named only by the requests of the specification that
\* includes retrievefornotifications
SecondStudent == "s2@student.com"

\* String.prototype.toLowerCase on the strings above
toLowerCase(e) ==
    CASE e = "T1@TEACHER.COM" -> "t1@teacher.com"
      [] OTHER -> e

\* express-validator isEmail()
isEmail(e) == e \in Emails \cup {SecondStudent}

\* comparison of two strings by a binary (case-sensitive) collation
BinaryCollateEq(a, b) == a = b

\* comparison of two strings by the MySQL column collation (case-insensitive)
CollateEq(a, b) == toLowerCase(a) = toLowerCase(b)

(* ------------------------------ helpers -------------------------------- *)
Range(s) == {s[i] : i \in 1..Len(s)}

RECURSIVE SeqsUpTo(_, _)
\* all sequences over S of length 0..n
SeqsUpTo(S, n) ==
    IF n = 0 THEN {<<>>}
    ELSE LET shorter == SeqsUpTo(S, n - 1)
         IN shorter \cup {Append(q, x) : q \in {r \in shorter : Len(r) = n - 1}, x \in S}

RECURSIVE MapSeq(_, _)
MapSeq(Op(_), s) == IF s = <<>> THEN <<>> ELSE <<Op(Head(s))>> \o MapSeq(Op, Tail(s))

RECURSIVE SortById(_)
\* the rows of a result set in primary-key order
SortById(S) ==
    IF S = {} THEN <<>>
    ELSE LET m == CHOOSE r \in S : \A q \in S : r.id <= q.id
         IN <<m>> \o SortById(S \ {m})

(* ------------------------------- state --------------------------------- *)
VARIABLES
    users,      \* rows of table `user`: [id, email, type, isSuspended]
    links,      \* rows of table `teacher_students`: <<teacher id, student id>>
    last,       \* the most recently answered request and its response
    inflight,   \* requests between two storage round-trips (interleaved spec)
    started     \* number of requests started (interleaved spec)

vars == <<users, links, last, inflight, started>>

\* the `type` discriminator column of @TableInheritance
TeacherType == "Teacher"
StudentType == "Student"

\* AUTO_INCREMENT of @PrimaryGeneratedColumn: rows are never deleted, so the
\* next id is one more than the number of rows (ids burnt by a rolled-back
\* insert are not modelled; the id values are not observable by a client)
NextId(u) == 1 + Cardinality(u)

(* ------------------------------ entities ------------------------------- *)
\* new Student(email, isSuspended = false): id is undefined (0) until saved
NewStudent(email) == [id |-> 0, email |-> email, isSuspended |-> FALSE]

StudentEntity(row) == [id |-> row.id, email |-> row.email, isSuspended |-> row.isSuspended]

\* a `students` relation that is not loaded with the teacher
NoEagerStudents(u, l, tid) == <<>>

\* the eager `students` relation of a Teacher row, joined through
\* teacher_students and read in primary-key order
LoadStudents(u, l, tid) ==
    MapSeq(StudentEntity, SortById({r \in u : r.type = StudentType /\ <<tid, r.id>> \in l}))

TeacherEntity(u, l, row) ==
    [id |-> row.id, email |-> row.email, students |-> LoadStudents(u, l, row.id)]

\* what findOne answers when no row matches
NoTeacher == [id |-> -1, email |-> "", students |-> <<>>]
NoStudent == [id |-> -1, email |-> "", isSuspended |-> FALSE]

\* a lookup by email over every row of the `user` table
UserFindOne(u, l, email) ==
    LET rows == {r \in u : CollateEq(r.email, email)}
    IN IF rows = {} THEN NoTeacher ELSE TeacherEntity(u, l, SortById(rows)[1])

\* getRepository(Teacher).findOne({where: {email}})
TeacherFindOne(u, l, email) ==
    LET rows == {r \in u : r.type = TeacherType /\ CollateEq(r.email, email)}
    IN IF rows = {} THEN NoTeacher ELSE TeacherEntity(u, l, SortById(rows)[1])

\* a student lookup by email over every row of the `user` table
AnyUserFindOne(u, email) ==
    LET rows == {r \in u : CollateEq(r.email, email)}
    IN IF rows = {} THEN NoStudent ELSE StudentEntity(SortById(rows)[1])

\* Student.findOne({email})
StudentFindOne(u, email) ==
    LET rows == {r \in u : r.type = StudentType /\ CollateEq(r.email, email)}
    IN IF rows = {} THEN NoStudent ELSE StudentEntity(SortById(rows)[1])

\* a query by emails without the condition on the `type` column
queryUsersByEmails(u, emails, type) ==
    SortById({r \in u : \E i \in 1..Len(emails) : CollateEq(r.email, emails[i])})

\* User.queryByEmails(emails, type).getMany()
queryByEmails(u, emails, type) ==
    SortById({r \in u : r.type = type /\ \E i \in 1..Len(emails) : CollateEq(r.email, emails[i])})

\* findOrCreate that looks the email up and keeps it as the client wrote it
findOrCreateKeepingCase(u, l, email) ==
    LET found == TeacherFindOne(u, l, email)
    IN IF found = NoTeacher
       THEN [id |-> 0, email |-> email, students |-> <<>>]
       ELSE found

\* Teacher.findOrCreate(email)
findOrCreate(u, l, email) ==
    LET lower == toLowerCase(email)
        found == TeacherFindOne(u, l, lower)
    IN IF found = NoTeacher
       THEN [id |-> 0, email |-> lower, students |-> <<>>]
       ELSE found

\* findOrCreateByEmails that creates one student per distinct missing email
findOrCreateByDistinctEmails(u, emails) ==
    IF Len(emails) = 0 THEN <<>>
    ELSE LET lower == MapSeq(toLowerCase, emails)
             existing == MapSeq(StudentEntity, queryByEmails(u, lower, StudentType))
             existingEmails == {existing[i].email : i \in 1..Len(existing)}
             missingEmails == SelectSeq(lower, LAMBDA e : e \notin existingEmails)
             firstOnly == SelectSeq([i \in 1..Len(missingEmails) |->
                                        IF \E j \in 1..(i - 1) : missingEmails[j] = missingEmails[i]
                                        THEN "" ELSE missingEmails[i]],
                                    LAMBDA e : e # "")
         IN existing \o MapSeq(NewStudent, firstOnly)

\* findOrCreateByEmails that answers the stored students only
findExistingByEmails(u, emails) ==
    IF Len(emails) = 0 THEN <<>>
    ELSE MapSeq(StudentEntity, queryByEmails(u, MapSeq(toLowerCase, emails), StudentType))

\* Student.findOrCreateByEmails(emails)
findOrCreateByEmails(u, emails) ==
    IF Len(emails) = 0 THEN <<>>
    ELSE LET lower == MapSeq(toLowerCase, emails)
             existing == MapSeq(StudentEntity, queryByEmails(u, lower, StudentType))
             existingEmails == {existing[i].email : i \in 1..Len(existing)}
             missingEmails == SelectSeq(lower, LAMBDA e : e \notin existingEmails)
             missing == MapSeq(NewStudent, missingEmails)
         IN existing \o missing

(* ------------------------------ storage -------------------------------- *)
\* a table without the unique constraint
NoUniqueConstraint(u, ins) == TRUE

\* a uniqueness check of each new email against the stored rows only
UniqueAgainstStored(u, ins) ==
    \A i \in 1..Len(ins) : \A r \in u : ~CollateEq(r.email, ins[i])

\* @Unique(['email']) on User: the emails to insert collide neither with a
\* stored row nor with each other
UniqueEmailOk(u, ins) ==
    /\ \A i \in 1..Len(ins) : \A r \in u : ~CollateEq(r.email, ins[i])
    /\ \A i, j \in 1..Len(ins) : i < j => ~CollateEq(ins[i], ins[j])

RECURSIVE AssignIds(_, _)
\* the entities of s, each unsaved one given the next generated id
AssignIds(s, next) ==
    IF s = <<>> THEN <<>>
    ELSE IF Head(s).id = 0
         THEN <<[Head(s) EXCEPT !.id = next]>> \o AssignIds(Tail(s), next + 1)
         ELSE <<Head(s)>> \o AssignIds(Tail(s), next)

\* teacher.save(): one transaction that inserts the teacher when it is new,
\* cascades to teacher.students (inserts the unsaved ones, updates the
\* columns of the saved ones that differ from their rows) and makes the
\* junction rows of the teacher equal to teacher.students.  A violated
\* unique constraint rolls the transaction back.  The transaction is one
\* step: no other request is served inside it.
SaveTeacher(u, l, t) ==
    LET isNewT == t.id = 0
        tid == IF isNewT THEN NextId(u) ELSE t.id
        firstSid == IF isNewT THEN tid + 1 ELSE NextId(u)
        saved == AssignIds(t.students, firstSid)
        newStudents == SelectSeq(t.students, LAMBDA s : s.id = 0)
        insEmails == (IF isNewT THEN <<t.email>> ELSE <<>>)
                        \o MapSeq(LAMBDA s : s.email, newStudents)
        savedIds == {saved[i].id : i \in 1..Len(saved)}
        kept == {r \in u : r.id \notin savedIds}
        studentRows == {[id |-> saved[i].id, email |-> saved[i].email, type |-> StudentType,
                         isSuspended |-> saved[i].isSuspended] : i \in 1..Len(saved)}
        teacherRows == IF isNewT
                       THEN {[id |-> tid, email |-> t.email, type |-> TeacherType,
                              isSuspended |-> FALSE]}
                       ELSE {}
    IN IF UniqueEmailOk(u, insEmails)
       THEN [ok |-> TRUE,
             users |-> kept \cup studentRows \cup teacherRows,
             links |-> {p \in l : p[1] # tid} \cup {<<tid, sid>> : sid \in savedIds}]
       ELSE [ok |-> FALSE, users |-> u, links |-> l]

\* an update that is not restricted to the row of the student
SaveEveryStudent(u, s) ==
    {IF r.type = StudentType THEN [r EXCEPT !.isSuspended = s.isSuspended] ELSE r : r \in u}

\* student.save(): updates the row of the student
SaveStudent(u, s) ==
    {IF r.id = s.id THEN [r EXCEPT !.isSuspended = s.isSuspended] ELSE r : r \in u}

(* ------------------------------ responses ------------------------------ *)
NoRequest ==
    [op |-> "none", teacher |-> "", emails |-> <<>>, status |-> 0, body |-> <<>>,
     changed |-> FALSE, text |-> <<>>, ents |-> <<>>]

\* a request (op, teacher, emails) with its response (status, body) and
\* whether answering it changed the stored rows; `text` is the notification
\* of a retrievefornotifications request, `ents` the entities a direct call
\* of a find-or-create helper returned
Response(op, teacher, emails, status, body, changed) ==
    [op |-> op, teacher |-> teacher, emails |-> emails, status |-> status, body |-> body,
     changed |-> changed, text |-> <<>>, ents |-> <<>>]

(* --------------------------- POST /register ---------------------------- *)
\* registerStudentsValidators + validationMw
registerStudentsValid(teacher, students) ==
    /\ isEmail(teacher)
    /\ Len(students) >= 1
    /\ \A i \in 1..Len(students) : isEmail(students[i])

\* a handler without the self-registration check
neverSelfRegistration(teacherEmail, studentEmails) == FALSE

\* studentEmails.includes(teacherEmail)
isSelfRegistration(teacherEmail, studentEmails) == teacherEmail \in Range(studentEmails)

\* addStudents that assigns the unregistered students instead of pushing them
addStudentsReplacing(teacher, students) ==
    LET currentStudentEmails == {teacher.students[i].email : i \in 1..Len(teacher.students)}
    IN [teacher EXCEPT !.students =
            SelectSeq(students, LAMBDA s : s.email \notin currentStudentEmails)]

\* addStudents that pushes the unregistered students last to first
addStudentsBackwards(teacher, students) ==
    LET currentStudentEmails == {teacher.students[i].email : i \in 1..Len(teacher.students)}
        newStudents == SelectSeq(students, LAMBDA s : s.email \notin currentStudentEmails)
    IN [teacher EXCEPT !.students =
            @ \o [i \in 1..Len(newStudents) |-> newStudents[Len(newStudents) + 1 - i]]]

\* teacher.students after "add students that are not registered to this teacher"
addStudents(teacher, students) ==
    LET currentStudentEmails == {teacher.students[i].email : i \in 1..Len(teacher.students)}
    IN [teacher EXCEPT !.students =
            @ \o SelectSeq(students, LAMBDA s : s.email \notin currentStudentEmails)]

\* a save that answers 204 also when teacher.save() throws
saveAndAlwaysRespond204(u, l, teacher) ==
    LET saved == SaveTeacher(u, l, teacher)
    IN [status |-> 204, users |-> saved.users, links |-> saved.links]

\* a save outside a transaction: the insert of a new teacher row stays when
\* a later insert of a student row fails
saveWithoutTransaction(u, l, teacher) ==
    LET saved == SaveTeacher(u, l, teacher)
        teacherStays == teacher.id = 0 /\ \A r \in u : ~CollateEq(r.email, teacher.email)
    IN IF saved.ok THEN [status |-> 204, users |-> saved.users, links |-> saved.links]
       ELSE [status |-> 500,
             users |-> IF teacherStays
                       THEN u \cup {[id |-> NextId(u), email |-> teacher.email,
                                      type |-> TeacherType, isSuspended |-> FALSE]}
                       ELSE u,
             links |-> l]

\* try { await teacher.save() } catch { 500 }; 204
saveAndRespond(u, l, teacher) ==
    LET saved == SaveTeacher(u, l, teacher)
    IN [status |-> IF saved.ok THEN 204 ELSE 500, users |-> saved.users, links |-> saved.links]

\* a validation middleware that answers 400 and still calls the handler
registerDespiteFailedValidation(u, l, teacherEmail, studentEmails) ==
    LET handled ==
            IF isSelfRegistration(teacherEmail, studentEmails)
            THEN [status |-> 400, users |-> u, links |-> l]
            ELSE LET teacher == findOrCreate(u, l, teacherEmail)
                     students == findOrCreateByEmails(u, studentEmails)
                 IN saveAndRespond(u, l, addStudents(teacher, students))
    IN IF ~registerStudentsValid(teacherEmail, studentEmails)
       THEN [handled EXCEPT !.status = 400]
       ELSE handled

\* the whole handler: [status, users, links]
registerStudentsResult(u, l, teacherEmail, studentEmails) ==
    IF ~registerStudentsValid(teacherEmail, studentEmails)
    THEN [status |-> 400, users |-> u, links |-> l]
    ELSE IF isSelfRegistration(teacherEmail, studentEmails)
    THEN [status |-> 400, users |-> u, links |-> l]
    ELSE LET teacher == findOrCreate(u, l, teacherEmail)
             students == findOrCreateByEmails(u, studentEmails)
         IN saveAndRespond(u, l, addStudents(teacher, students))

registerStudents(teacherEmail, studentEmails) ==
    LET r == registerStudentsResult(users, links, teacherEmail, studentEmails)
    IN /\ users' = r.users
       /\ links' = r.links
       /\ last' = Response("register", teacherEmail, studentEmails, r.status, <<>>,
                           r.users # users \/ r.links # links)
       /\ UNCHANGED <<inflight, started>>

(* ------------------------- GET /commonstudents ------------------------- *)
\* listCommonStudentsValidators + validationMw
listCommonStudentsValid(emails) ==
    /\ Len(emails) >= 1
    /\ \A i \in 1..Len(emails) : isEmail(emails[i])

\* createQueryBuilder(Teacher, 't').leftJoinAndSelect('t.students', ..)
\*     .where('t.email IN (:...emails)').getMany()
teachersByEmails(u, l, emails) ==
    LET rows == {r \in u : r.type = TeacherType
                            /\ \E i \in 1..Len(emails) : CollateEq(r.email, emails[i])}
    IN MapSeq(LAMBDA r : TeacherEntity(u, l, r), SortById(rows))

\* a not-found check that fires only when no teacher at all was found
noTeacherFound(teachers, emails) == Len(teachers) = 0

\* teachers.length < emails.length
teacherNotFound(teachers, emails) == Len(teachers) < Len(emails)

RECURSIVE intersectFrom(_, _)
\* studentLists.reduce((a, b) => a.filter(elem => b.includes(elem))) with
\* accumulator a and the lists still to fold in
intersectFrom(a, lists) ==
    IF lists = <<>> THEN a
    ELSE intersectFrom(SelectSeq(a, LAMBDA elem : elem \in Range(Head(lists))), Tail(lists))

\* the whole handler: [status, body]
listCommonStudentsResult(u, l, emails) ==
    IF ~listCommonStudentsValid(emails) THEN [status |-> 400, body |-> <<>>]
    ELSE LET teachers == teachersByEmails(u, l, emails)
             studentLists == MapSeq(LAMBDA t : MapSeq(LAMBDA s : s.email, t.students), teachers)
         IN IF teacherNotFound(teachers, emails) THEN [status |-> 404, body |-> <<>>]
            ELSE IF Len(studentLists) = 0 THEN [status |-> 200, body |-> <<>>]
            ELSE [status |-> 200,
                  body |-> intersectFrom(Head(studentLists), Tail(studentLists))]

listCommonStudents(emails) ==
    LET r == listCommonStudentsResult(users, links, emails)
    IN /\ last' = Response("commonstudents", "", emails, r.status, r.body, FALSE)
       /\ UNCHANGED <<users, links, inflight, started>>

(* ---------------------------- POST /suspend ---------------------------- *)
\* suspendStudentValidators + validationMw
suspendStudentValid(studentEmail) == isEmail(studentEmail)

\* student.isSuspended = true; await student.save()
suspendAndSave(u, student) == SaveStudent(u, [student EXCEPT !.isSuspended = TRUE])

\* the whole handler: [status, users]
suspendStudentResult(u, studentEmail) ==
    IF ~suspendStudentValid(studentEmail) THEN [status |-> 400, users |-> u]
    ELSE LET student == StudentFindOne(u, studentEmail)
         IN IF student = NoStudent THEN [status |-> 404, users |-> u]
            ELSE [status |-> 204, users |-> suspendAndSave(u, student)]

suspendStudent(studentEmail) ==
    LET r == suspendStudentResult(users, studentEmail)
    IN /\ users' = r.users
       /\ last' = Response("suspend", "", <<studentEmail>>, r.status, <<>>, r.users # users)
       /\ UNCHANGED <<links, inflight, started>>

(* -------------------- POST /retrievefornotifications ------------------- *)
\* The `notification` of a request is a JSON value.  A string is written as
\* the sequence of its whitespace-separated tokens, and a token as the
\* sequence of its pieces: "@", "." or a run of other characters.
Notification(tokens) == [isString |-> TRUE, tokens |-> tokens]
\* a `notification` that is not a string (a number, null, an object)
NotAString == [isString |-> FALSE, tokens |-> <<>>]

\* the characters of an email string, in pieces
Chars(e) ==
    CASE e = "t1@teacher.com" -> <<"t1", "@", "teacher", ".", "com">>
      [] e = "t2@teacher.com" -> <<"t2", "@", "teacher", ".", "com">>
      [] e = "s1@student.com" -> <<"s1", "@", "student", ".", "com">>
      [] e = "s2@student.com" -> <<"s2", "@", "student", ".", "com">>
      [] e = "T1@TEACHER.COM" -> <<"T1", "@", "TEACHER", ".", "COM">>
      [] e = "s1@.com" -> <<"s1", "@", ".", "com">>
      [] OTHER -> <<e>>

\* lower case of a piece
toLowerCasePiece(c) ==
    CASE c = "T1" -> "t1"
      [] c = "TEACHER" -> "teacher"
      [] c = "COM" -> "com"
      [] c = "S1" -> "s1"
      [] c = "STUDENT" -> "student"
      [] c = "Hello" -> "hello"
      [] OTHER -> c

\* comparison of a stored email with a matched substring by the column
\* collation (case-insensitive)
CollateEqChars(email, m) ==
    MapSeq(toLowerCasePiece, Chars(email)) = MapSeq(toLowerCasePiece, m)

\* body('teacher').isEmail(), body('notification').isString()
listStudentsForNotificationValid(teacherEmail, notification) ==
    /\ isEmail(teacherEmail)
    /\ notification.isString

\* one piece read by /\S+@\S+\.\S+/ in state st: 0 before the match,
\* 1 in the first \S+, 2 after "@", 3 in the second \S+, 4 after ".",
\* 5 in the third \S+ (the pattern is matched)
shapeStep(st, c) ==
    CASE st = 0 -> {1}
      [] st = 1 -> IF c = "@" THEN {1, 2} ELSE {1}
      [] st = 2 -> {3}
      [] st = 3 -> IF c = "." THEN {3, 4} ELSE {3}
      [] st = 4 -> {5}
      [] OTHER -> {5}

RECURSIVE shapeRun(_, _)
\* the states of the pattern after the pieces of s, read from the states q
shapeRun(q, s) ==
    IF s = <<>> THEN q
    ELSE shapeRun(UNION {shapeStep(st, Head(s)) : st \in q}, Tail(s))

\* /\S+@\S+\.\S+/ matches at the start of s; every \S+ is greedy and a token
\* holds no whitespace, so a match runs to the end of the token
matchesShape(s) == 5 \in shapeRun({0}, s)

\* a pattern without the look-behind: a match may start at any piece
noLookbehind(tok, k) == TRUE

\* (?<=@): the character before the match is "@"
lookbehind(tok, k) == k > 1 /\ tok[k - 1] = "@"

RECURSIVE matchFrom(_, _)
\* the leftmost match of emailRegex in a token, searched from piece k on;
\* the search resumes after the match, which is the end of the token
matchFrom(tok, k) ==
    IF k > Len(tok) THEN <<>>
    ELSE IF lookbehind(tok, k) /\ matchesShape(SubSeq(tok, k, Len(tok)))
         THEN <<SubSeq(tok, k, Len(tok))>>
         ELSE matchFrom(tok, k + 1)

RECURSIVE emailRegexMatches(_)
\* notification.match(emailRegex), with <<>> for null
emailRegexMatches(tokens) ==
    IF tokens = <<>> THEN <<>>
    ELSE matchFrom(Head(tokens), 1) \o emailRegexMatches(Tail(tokens))

\* a roster read without the isSuspended filter
wholeRoster(teacher) == MapSeq(LAMBDA s : s.email, teacher.students)

\* teacher.students.filter(s => !s.isSuspended).map(s => s.email)
activeRoster(teacher) ==
    MapSeq(LAMBDA s : s.email, SelectSeq(teacher.students, LAMBDA s : ~s.isSuspended))

\* getRepository(Student).createQueryBuilder('u')
\*     .where('u.isSuspended = 0 AND u.email IN (:...emails)').getMany(),
\* mapped to the emails
mentionedStudents(u, matches) ==
    MapSeq(LAMBDA r : r.email,
           SortById({r \in u : /\ r.type = StudentType
                                /\ ~r.isSuspended
                                /\ \E i \in 1..Len(matches) : CollateEqChars(r.email, matches[i])}))

RECURSIVE uniqueInOrder(_)
\* a response that lists the recipients as collected
keepRepeats(s) == s

\* [...new Set(studentEmails)]: the first occurrence of each element
uniqueInOrder(s) ==
    IF s = <<>> THEN <<>>
    ELSE <<Head(s)>> \o uniqueInOrder(SelectSeq(Tail(s), LAMBDA e : e # Head(s)))

\* the whole handler: [status, body]
listStudentsForNotificationResult(u, l, teacherEmail, notification) ==
    IF ~listStudentsForNotificationValid(teacherEmail, notification)
    THEN [status |-> 400, body |-> <<>>]
    ELSE LET teacher == TeacherFindOne(u, l, teacherEmail)
         IN IF teacher = NoTeacher THEN [status |-> 404, body |-> <<>>]
            ELSE LET studentEmails == activeRoster(teacher)
                     matches == emailRegexMatches(notification.tokens)
                     mentioned == IF matches # <<>> THEN mentionedStudents(u, matches)
                                  ELSE <<>>
                 IN [status |-> 200, body |-> uniqueInOrder(studentEmails \o mentioned)]

listStudentsForNotification(teacherEmail, notification) ==
    LET r == listStudentsForNotificationResult(users, links, teacherEmail, notification)
    IN /\ last' = [Response("retrievefornotifications", teacherEmail, <<>>, r.status,
                            r.body, FALSE) EXCEPT !.text = notification.tokens]
       /\ UNCHANGED <<users, links, inflight, started>>

(* ------------------------------- inputs -------------------------------- *)
\* the emails a register request names as students
StudentAlphabet == {"t1@teacher.com", "T1@TEACHER.COM", "s1@student.com"}

\* <<teacher, students>> of the register requests
RegisterInputs ==
    {<<t, s>> : t \in Emails, s \in SeqsUpTo(StudentAlphabet, MaxStudentsLen) \ {<<>>}}
        \cup {<<NotEmail, <<"s1@student.com">>>>,
              <<"t1@teacher.com", <<>>>>,
              <<"t1@teacher.com", <<NotEmail>>>>}

\* the `teacher` query of the commonstudents requests
CommonInputs == SeqsUpTo(Emails, MaxTeachersLen) \cup {<<NotEmail>>}

SuspendInputs == ReqStrings

(* ------------------- specification: one request at a time -------------- *)
\* a free slot of the server
Idle ==
    [op |-> "idle", pc |-> "idle", teacher |-> "", emails |-> <<>>,
     teacherEnt |-> NoTeacher, studentEnts |-> <<>>]

Init ==
    /\ users = {}
    /\ links = {}
    /\ last = NoRequest
    /\ inflight = [p \in 1..MaxInFlight |-> Idle]
    /\ started = 0

Next ==
    \/ \E in \in RegisterInputs : registerStudents(in[1], in[2])
    \/ \E emails \in CommonInputs : listCommonStudents(emails)
    \/ \E s \in SuspendInputs : suspendStudent(s)

Spec == Init /\ [][Next]_vars

(* ------------- specification: requests interleaved at each await ------- *)
\* the slot a new request takes
FreeSlot(p) ==
    /\ inflight[p].op = "idle"
    /\ \A q \in 1..(p - 1) : inflight[q].op # "idle"

\* registerStudents up to the end of `await Teacher.findOrCreate(teacherEmail)`
registerFindTeacher(teacherEmail, studentEmails) ==
    /\ started < MaxRequests
    /\ started' = started + 1
    /\ UNCHANGED <<users, links>>
    /\ IF \/ ~registerStudentsValid(teacherEmail, studentEmails)
          \/ isSelfRegistration(teacherEmail, studentEmails)
       THEN /\ last' = Response("register", teacherEmail, studentEmails, 400, <<>>, FALSE)
            /\ UNCHANGED inflight
       ELSE /\ \E p \in 1..MaxInFlight :
                 /\ FreeSlot(p)
                 /\ inflight' = [inflight EXCEPT ![p] =
                        [op |-> "register", pc |-> "findStudents",
                         teacher |-> teacherEmail, emails |-> studentEmails,
                         teacherEnt |-> findOrCreate(users, links, teacherEmail),
                         studentEnts |-> <<>>]]
            /\ UNCHANGED last

\* `await Student.findOrCreateByEmails(studentEmails)`
registerFindStudents(p) ==
    /\ inflight[p].op = "register"
    /\ inflight[p].pc = "findStudents"
    /\ inflight' = [inflight EXCEPT ![p].pc = "save",
                                    ![p].studentEnts = findOrCreateByEmails(users, inflight[p].emails)]
    /\ UNCHANGED <<users, links, last, started>>

\* registerStudents from "add students that are not registered" to the response
registerSave(p) ==
    /\ inflight[p].op = "register"
    /\ inflight[p].pc = "save"
    /\ LET r == saveAndRespond(users, links,
                               addStudents(inflight[p].teacherEnt, inflight[p].studentEnts))
       IN /\ users' = r.users
          /\ links' = r.links
          /\ last' = Response("register", inflight[p].teacher, inflight[p].emails, r.status,
                              <<>>, r.users # users \/ r.links # links)
    /\ inflight' = [inflight EXCEPT ![p] = Idle]
    /\ UNCHANGED started

\* suspendStudent up to the end of `await Student.findOne({email: studentEmail})`
suspendFindStudent(studentEmail) ==
    /\ started < MaxRequests
    /\ started' = started + 1
    /\ UNCHANGED <<users, links>>
    /\ LET student == StudentFindOne(users, studentEmail)
       IN IF ~suspendStudentValid(studentEmail)
          THEN /\ last' = Response("suspend", "", <<studentEmail>>, 400, <<>>, FALSE)
               /\ UNCHANGED inflight
          ELSE IF student = NoStudent
          THEN /\ last' = Response("suspend", "", <<studentEmail>>, 404, <<>>, FALSE)
               /\ UNCHANGED inflight
          ELSE /\ \E p \in 1..MaxInFlight :
                    /\ FreeSlot(p)
                    /\ inflight' = [inflight EXCEPT ![p] =
                           [op |-> "suspend", pc |-> "save",
                            teacher |-> "", emails |-> <<studentEmail>>,
                            teacherEnt |-> NoTeacher, studentEnts |-> <<student>>]]
               /\ UNCHANGED last

\* suspendStudent from `student.isSuspended = true` to the response
suspendSave(p) ==
    /\ inflight[p].op = "suspend"
    /\ inflight[p].pc = "save"
    /\ LET u == suspendAndSave(users, inflight[p].studentEnts[1])
       IN /\ users' = u
          /\ last' = Response("suspend", "", inflight[p].emails, 204, <<>>, u # users)
    /\ inflight' = [inflight EXCEPT ![p] = Idle]
    /\ UNCHANGED <<links, started>>

\* the requests of the interleaved specification
InterleavedRegisterInputs ==
    {<<t, <<s>>>> : t \in {"t1@teacher.com", "t2@teacher.com"},
                    s \in {"s1@student.com", "t2@teacher.com"}}
InterleavedSuspendInputs == {"s1@student.com", NotEmail}
InterleavedCommonInputs == {<<"t1@teacher.com">>, <<"t1@teacher.com", "t2@teacher.com">>}

NextInterleaved ==
    \/ \E in \in InterleavedRegisterInputs : registerFindTeacher(in[1], in[2])
    \/ \E p \in 1..MaxInFlight : registerFindStudents(p)
    \/ \E p \in 1..MaxInFlight : registerSave(p)
    \/ \E s \in InterleavedSuspendInputs : suspendFindStudent(s)
    \/ \E p \in 1..MaxInFlight : suspendSave(p)
    \/ \E emails \in InterleavedCommonInputs : listCommonStudents(emails)

SpecInterleaved == Init /\ [][NextInterleaved]_vars

(* ------ specification: the four handlers, one request at a time -------- *)
\* tokens of the notification texts
Hello == <<"Hello">>
Mention(e) == <<"@">> \o Chars(e)

\* the malformed mentions of s1@student.com: no leading "@", no dot, nothing
\* between "@" and the dot, nothing before the "@", a bare "@"
MalformedMentions ==
    {Chars("s1@student.com"),
     <<"@", "s1", "@", "student">>,
     <<"@", "s1", "@", ".", "com">>,
     <<"@", "@", "student", ".", "com">>,
     <<"@">>}

NotificationTexts ==
    {<<Hello>>,
     <<Hello, Mention("s1@student.com")>>,
     <<Hello, Mention("s1@student.com"), Mention("s2@student.com")>>,
     <<Hello, <<"@", "S1", "@", "STUDENT", ".", "COM">>>>,
     <<Hello, Mention("t1@teacher.com")>>}
        \cup {<<Hello, m>> : m \in MalformedMentions}

\* <<teacher, notification>> of the retrievefornotifications requests
NotificationInputs ==
    {<<t, Notification(x)>> : t \in {"t1@teacher.com", "T1@TEACHER.COM", "t2@teacher.com"},
                              x \in NotificationTexts}
        \cup {<<NotEmail, Notification(<<Hello>>)>>, <<"t1@teacher.com", NotAString>>}

NotifyRegisterInputs ==
    {<<t, <<x>>>> : t \in {"t1@teacher.com", "t2@teacher.com"},
                    x \in {"s1@student.com", SecondStudent}}
        \cup {<<"t2@teacher.com", <<"t1@teacher.com">>>>,
              <<"t2@teacher.com", <<SecondStudent, "s1@student.com">>>>,
              <<"t1@teacher.com", <<"t1@teacher.com">>>>,
              <<NotEmail, <<"s1@student.com">>>>}
NotifySuspendInputs ==
    {"s1@student.com", SecondStudent, "T1@TEACHER.COM", "t1@teacher.com", NotEmail}
NotifyCommonInputs ==
    {<<"t1@teacher.com">>, <<"T1@TEACHER.COM">>, <<"t1@teacher.com", "t2@teacher.com">>,
     <<"T1@TEACHER.COM", "t2@teacher.com">>, <<NotEmail>>}

NextNotify ==
    \/ \E in \in NotifyRegisterInputs : registerStudents(in[1], in[2])
    \/ \E emails \in NotifyCommonInputs : listCommonStudents(emails)
    \/ \E x \in NotifySuspendInputs : suspendStudent(x)
    \/ \E in \in NotificationInputs : listStudentsForNotification(in[1], in[2])

SpecNotify == Init /\ [][NextNotify]_vars

(* ------ specification: the find-or-create helpers called directly ------ *)
\* `await Teacher.findOrCreate(email)` called on the stored rows: the call
\* only reads (one findOne)
callFindOrCreate(email) ==
    /\ last' = [Response("Teacher.findOrCreate", email, <<>>, 0, <<>>, FALSE)
                    EXCEPT !.ents = <<findOrCreate(users, links, email)>>]
    /\ UNCHANGED <<users, links, inflight, started>>

\* `await Student.findOrCreateByEmails(emails)` called on the stored rows:
\* the call only reads (one getMany)
callFindOrCreateByEmails(emails) ==
    /\ last' = [Response("Student.findOrCreateByEmails", "", emails, 0, <<>>, FALSE)
                    EXCEPT !.ents = findOrCreateByEmails(users, emails)]
    /\ UNCHANGED <<users, links, inflight, started>>

\* the requests that fill the tables
EntityRegisterInputs ==
    {<<"t1@teacher.com", <<"s1@student.com">>>>,
     <<"t2@teacher.com", <<"s1@student.com">>>>,
     <<"t2@teacher.com", <<"t1@teacher.com">>>>,
     <<"t1@teacher.com", <<SecondStudent>>>>}
EntitySuspendInputs == {"s1@student.com", "t1@teacher.com"}

\* the arguments of the direct calls
FindOrCreateInputs == Emails \cup {SecondStudent}
FindOrCreateByEmailsInputs ==
    SeqsUpTo({"s1@student.com", "t1@teacher.com", "T1@TEACHER.COM", SecondStudent},
             MaxEmailsLen)

NextEntities ==
    \/ \E in \in EntityRegisterInputs : registerStudents(in[1], in[2])
    \/ \E x \in EntitySuspendInputs : suspendStudent(x)
    \/ \E e \in FindOrCreateInputs : callFindOrCreate(e)
    \/ \E emails \in FindOrCreateByEmailsInputs : callFindOrCreateByEmails(emails)

SpecEntities == Init /\ [][NextEntities]_vars

(* ----------------------- vocabulary of the properties ------------------ *)
Teachers == {r \in users : r.type = TeacherType}
Students == {r \in users : r.type = StudentType}

\* the stored roster of a teacher row, as the emails of its students
Roster(t) == MapSeq(LAMBDA s : s.email, LoadStudents(users, links, t.id))

\* the teacher rows stored under an email, compared without letter case
TeachersOf(email) == {t \in Teachers : toLowerCase(t.email) = toLowerCase(email)}
StudentsOf(email) == {r \in Students : toLowerCase(r.email) = toLowerCase(email)}

\* how often an email occurs in a sequence of emails
Count(seq, email) == Cardinality({k \in 1..Len(seq) : seq[k] = email})

IsRegister == last.op = "register"
IsCommon == last.op = "commonstudents"

\* q is a reordering of s
IsPermutation(s, q) ==
    /\ Len(s) = Len(q)
    /\ \E f \in [1..Len(s) -> 1..Len(s)] :
          /\ \A i, j \in 1..Len(s) : f[i] = f[j] => i = j
          /\ \A i \in 1..Len(s) : q[i] = s[f[i]]

\* a commonstudents request names the same teacher twice
HasRepeat(emails) ==
    \E i, j \in 1..Len(emails) : i < j /\ toLowerCase(emails[i]) = toLowerCase(emails[j])

\* every email of a commonstudents request is the email of a stored teacher
AllTeachersExist(emails) == \A i \in 1..Len(emails) : TeachersOf(emails[i]) # {}

\* the students that are on the roster of every requested teacher
CommonRoster(emails) ==
    {e \in LowerEmails :
        \A i \in 1..Len(emails) : \A t \in TeachersOf(emails[i]) : e \in Range(Roster(t))}

(* ------------------------------ register ------------------------------- *)
\* C1: register is idempotent: in the state a register request leaves
\* behind, performing the same request again changes no stored teacher,
\* student or roster; after a successful one the repeat succeeds too and the
\* teacher's roster holds each requested student exactly once.
C1_RegisterIdempotent ==
    IsRegister =>
        LET again == registerStudentsResult(users, links, last.teacher, last.emails)
        IN /\ again.users = users
           /\ again.links = links
           /\ last.status = 204 =>
                /\ again.status = 204
                /\ \A t \in TeachersOf(last.teacher) : \A i \in 1..Len(last.emails) :
                      Count(Roster(t), toLowerCase(last.emails[i])) = 1

\* a register request that was answered 204 and found everything registered
C1_Witness ==
    /\ IsRegister /\ last.status = 204 /\ ~last.changed
    /\ \E t \in TeachersOf(last.teacher) : Len(Roster(t)) >= 1

\* C2: after a register request answered 204 a Teacher is stored under the
\* lowercased teacher email, a Student is stored under every lowercased
\* student email, and the teacher's roster contains all of them.
C2_RegisterStores ==
    (IsRegister /\ last.status = 204) =>
        \E t \in Teachers :
            /\ t.email = toLowerCase(last.teacher)
            /\ \A i \in 1..Len(last.emails) :
                  /\ \E r \in Students : r.email = toLowerCase(last.emails[i])
                  /\ toLowerCase(last.emails[i]) \in Range(Roster(t))

\* a register request that created a teacher and two students
C2_Witness ==
    /\ IsRegister /\ last.status = 204 /\ last.changed
    /\ Len(last.emails) = 2 /\ ~CollateEq(last.emails[1], last.emails[2])
    /\ Cardinality(users) = 3

\* C3: register is case-insensitive: every stored email is lowercase, no two
\* teachers and no two students are stored under emails equal up to letter
\* case, and a successful register request leaves exactly one teacher for its
\* teacher email and exactly one student for each of its student emails,
\* whatever the letter case of the request.
C3_RegisterCaseInsensitive ==
    /\ \A r \in users : r.email = toLowerCase(r.email)
    /\ \A r, q \in users : (r.type = q.type /\ CollateEq(r.email, q.email)) => r = q
    /\ (IsRegister /\ last.status = 204) =>
          /\ Cardinality(TeachersOf(last.teacher)) = 1
          /\ \A i \in 1..Len(last.emails) : Cardinality(StudentsOf(last.emails[i])) = 1

\* an upper-case register request found its teacher and student stored
C3_Witness ==
    /\ IsRegister /\ last.status = 204 /\ ~last.changed
    /\ last.teacher \in UpperEmails
    /\ \E t \in TeachersOf(last.teacher) :
          t.email # last.teacher /\ Len(Roster(t)) >= 1

\* C4: a register request whose student list contains the teacher email
\* string is answered 400 and changes nothing.
C4_SelfRegistrationRejected ==
    (IsRegister /\ last.teacher \in Range(last.emails)) =>
        (last.status = 400 /\ ~last.changed)

\* a valid self-registration was answered while rows were stored
C4_Witness ==
    /\ IsRegister /\ last.teacher \in Range(last.emails)
    /\ registerStudentsValid(last.teacher, last.emails)
    /\ last.status = 400 /\ users # {}

\* C5: when email A is stored as a Teacher, register(B, [A]) with B other
\* than A is answered 204 and leaves A on the roster of B.
C5_TeacherAsStudent ==
    (/\ IsRegister /\ Len(last.emails) = 1
     /\ isEmail(last.teacher) /\ isEmail(last.emails[1])
     /\ ~CollateEq(last.teacher, last.emails[1])
     /\ TeachersOf(last.emails[1]) # {}) =>
        /\ last.status = 204
        /\ \E t \in TeachersOf(last.teacher) : toLowerCase(last.emails[1]) \in Range(Roster(t))

\* C7: no stored roster contains the same student email more than once.
C7_RosterDuplicateFree ==
    \A t \in Teachers : \A i, j \in 1..Len(Roster(t)) :
        CollateEq(Roster(t)[i], Roster(t)[j]) => i = j

\* a register request repeating a student email was answered 204
C7_Witness ==
    /\ IsRegister /\ last.status = 204 /\ Len(last.emails) = 2
    /\ CollateEq(last.emails[1], last.emails[2])
    /\ \E t \in TeachersOf(last.teacher) : toLowerCase(last.emails[1]) \in Range(Roster(t))

\* C6: no two stored identities (two teachers, two students, or a teacher
\* and a student) have the same email, under every interleaving of register
\* and suspend requests.
C6_EmailGloballyUnique ==
    \A r, q \in users : CollateEq(r.email, q.email) => r = q

\* a register request lost a race: it was answered 500 although its teacher
\* email is not stored as a student and its student is stored as a student,
\* which a request served alone would have found
C6_Witness ==
    /\ IsRegister /\ last.status = 500
    /\ StudentsOf(last.teacher) = {}
    /\ \A i \in 1..Len(last.emails) : Cardinality(StudentsOf(last.emails[i])) = 1

(* ---------------------------- commonstudents --------------------------- *)
\* C8: when every requested teacher exists, commonstudents answers the set
\* intersection of the requested teachers' rosters, and answers the same set
\* for every ordering of the request.
C8_CommonStudentsIsIntersection ==
    (IsCommon /\ listCommonStudentsValid(last.emails) /\ AllTeachersExist(last.emails)) =>
        /\ last.status = 200
        /\ Range(last.body) = CommonRoster(last.emails)
        /\ \A q \in CommonInputs : IsPermutation(last.emails, q) =>
              LET r == listCommonStudentsResult(users, links, q)
              IN r.status = 200 /\ Range(r.body) = Range(last.body)

\* the same, for the requests that name no teacher twice
CommonStudentsOfDistinctTeachers ==
    (/\ IsCommon /\ listCommonStudentsValid(last.emails) /\ AllTeachersExist(last.emails)
     /\ ~HasRepeat(last.emails)) =>
        /\ last.status = 200
        /\ Range(last.body) = CommonRoster(last.emails)
        /\ \A q \in CommonInputs : IsPermutation(last.emails, q) =>
              LET r == listCommonStudentsResult(users, links, q)
              IN r.status = 200 /\ Range(r.body) = Range(last.body)

\* C9: commonstudents answers 404 without a student list whenever one of
\* the requested emails is not the email of a stored teacher.
C9_UnknownTeacherNotFound ==
    (IsCommon /\ listCommonStudentsValid(last.emails) /\ ~AllTeachersExist(last.emails)) =>
        (last.status = 404 /\ last.body = <<>>)

\* a request naming one stored teacher, with a student, and one unknown teacher
C9_Witness ==
    /\ IsCommon /\ last.status = 404 /\ Len(last.emails) = 2
    /\ \E t \in TeachersOf(last.emails[1]) : Len(Roster(t)) >= 1
    /\ TeachersOf(last.emails[2]) = {}

\* C10: a commonstudents request that names an existing teacher more than
\* once is answered like the request naming each teacher once, and never 404
\* when all the requested teachers exist.
C10_CommonStudentsDeduplicates ==
    (/\ IsCommon /\ listCommonStudentsValid(last.emails) /\ AllTeachersExist(last.emails)
     /\ HasRepeat(last.emails)) =>
        /\ last.status # 404
        /\ \A q \in CommonInputs :
              (~HasRepeat(q) /\ {toLowerCase(e) : e \in Range(q)}
                                    = {toLowerCase(e) : e \in Range(last.emails)}) =>
                  LET r == listCommonStudentsResult(users, links, q)
                  IN last.status = r.status /\ Range(last.body) = Range(r.body)


(* ---------------------------- C11 .. C20 ------------------------------- *)
\* a notification text with every letter in lower case
LowerText(x) == MapSeq(LAMBDA tok : MapSeq(toLowerCasePiece, tok), x)

\* C11: the lookups are case-insensitive: in every reachable state a
\* commonstudents request, a suspend request and a retrievefornotifications
\* request (teacher email and mentions) written in any letter case are
\* answered, and change the stored rows, exactly as the same request written
\* in lower case.
C11_LookupsCaseInsensitive ==
    /\ \A emails \in SeqsUpTo(Emails, MaxTeachersLen) :
           listCommonStudentsResult(users, links, emails)
               = listCommonStudentsResult(users, links, MapSeq(toLowerCase, emails))
    /\ \A e \in Emails :
           suspendStudentResult(users, e) = suspendStudentResult(users, toLowerCase(e))
    /\ \A t \in Emails, x \in NotificationTexts :
           listStudentsForNotificationResult(users, links, t, Notification(x))
               = listStudentsForNotificationResult(users, links, toLowerCase(t),
                                                   Notification(LowerText(x)))

\* an upper-case teacher email and an upper-case mention were resolved: the
\* teacher stored as t1@teacher.com was found, and s1@student.com, who is not
\* on the roster, is a recipient
C11_Witness ==
    /\ last.op = "retrievefornotifications"
    /\ last.teacher = "T1@TEACHER.COM"
    /\ last.text = <<Hello, <<"@", "S1", "@", "STUDENT", ".", "COM">>>>
    /\ last.status = 200
    /\ "s1@student.com" \in Range(last.body)
    /\ \E t \in users : /\ t.type = TeacherType
                        /\ t.email = "t1@teacher.com"
                        /\ \A r \in users : r.email = "s1@student.com" => <<t.id, r.id>> \notin links

\* the last request is a well-formed retrievefornotifications request
IsNotify ==
    /\ last.op = "retrievefornotifications"
    /\ last.status # 400

\* the emails of the students on the stored roster of the teacher the last
\* request names, suspended ones left out
ActiveRosterOfLast ==
    {r.email : r \in {q \in Students : /\ ~q.isSuspended
                                       /\ \E t \in TeachersOf(last.teacher) : <<t.id, q.id>> \in links}}

\* the emails of the stored, not suspended Students that the text of the last
\* request mentions
ActiveMentionedOfLast ==
    {r.email : r \in {q \in Students : /\ ~q.isSuspended
                                       /\ \E m \in Range(emailRegexMatches(last.text)) :
                                              CollateEqChars(q.email, m)}}

\* C12: for an existing teacher retrievefornotifications answers 200 with,
\* each exactly once, the not suspended students of the roster and the
\* mentioned emails that are stored, not suspended Students; a mention of an
\* email that no stored Student has adds nothing.
C12_RecipientsAreRosterAndMentions ==
    (IsNotify /\ TeachersOf(last.teacher) # {})
        => /\ last.status = 200
           /\ Range(last.body) = ActiveRosterOfLast \cup ActiveMentionedOfLast
           /\ ~HasRepeat(last.body)

\* s1 is on the roster and mentioned, s2 is mentioned and not stored: the
\* recipients are s1, once
C12_Witness ==
    /\ IsNotify
    /\ last.text = <<Hello, Mention("s1@student.com"), Mention("s2@student.com")>>
    /\ ActiveRosterOfLast = {"s1@student.com"}
    /\ \A r \in users : r.email # "s2@student.com"
    /\ last.body = <<"s1@student.com">>

\* C13: a suspended student never receives a notification: no recipient of
\* a retrievefornotifications response is the email of a suspended row,
\* whether the student is on the roster, mentioned, or both.
C13_SuspendedNeverNotified ==
    IsNotify => \A k \in 1..Len(last.body) :
                    \A r \in users : CollateEq(r.email, last.body[k]) => ~r.isSuspended

\* s1 is suspended, on the roster of the teacher and mentioned, and is not a
\* recipient
C13_Witness ==
    /\ IsNotify
    /\ last.status = 200
    /\ last.text = <<Hello, Mention("s1@student.com")>>
    /\ \E r \in Students : /\ r.email = "s1@student.com"
                           /\ r.isSuspended
                           /\ \E t \in TeachersOf(last.teacher) : <<t.id, r.id>> \in links
    /\ "s1@student.com" \notin Range(last.body)

\* C14: retrievefornotifications answers 404 with no recipients when no
\* Teacher is stored under the given email, whatever the text mentions and
\* whatever students are stored.
C14_NotifyUnknownTeacher ==
    (IsNotify /\ TeachersOf(last.teacher) = {})
        => (last.status = 404 /\ last.body = <<>>)

\* the email of the request is stored as a Student, the text mentions a
\* stored, not suspended student, and the answer is 404
C14_Witness ==
    /\ IsNotify
    /\ last.status = 404
    /\ StudentsOf(last.teacher) # {}
    /\ last.text = <<Hello, Mention("s1@student.com")>>
    /\ \E r \in Students : r.email = "s1@student.com" /\ ~r.isSuspended

\* the pieces s read <non-whitespace>@<non-whitespace>.<non-whitespace>:
\* an "@" with something before it, later a "." with something between the
\* two and something after it
FullShape(s) ==
    \E a, d \in 1..Len(s) : /\ 2 <= a
                            /\ s[a] = "@"
                            /\ a + 2 <= d
                            /\ s[d] = "."
                            /\ d < Len(s)

\* what follows an "@" of a token, when it has the full shape
FullShapeMentions(tok) ==
    {SubSeq(tok, k + 1, Len(tok)) :
        k \in {j \in 1..Len(tok) : tok[j] = "@" /\ FullShape(SubSeq(tok, j + 1, Len(tok)))}}

\* C15: only full-shape mentions count: every recipient that is not on the
\* roster is named by a token holding an "@" immediately followed by
\* <non-whitespace>@<non-whitespace>.<non-whitespace>; an email without the
\* leading "@", "@s1@student", "@s1@.com", "@@student.com" and a bare "@"
\* contribute no recipient.
C15_OnlyFullShapeMentions ==
    (IsNotify /\ last.status = 200)
        => /\ \A e \in Range(last.body) \ ActiveRosterOfLast :
                  \E tok \in Range(last.text) :
                      \E m \in FullShapeMentions(tok) : CollateEqChars(e, m)
           /\ (\E m \in MalformedMentions : last.text = <<Hello, m>>)
                  => Range(last.body) = ActiveRosterOfLast

\* s1@student.com is stored, not suspended and not on the roster of the
\* teacher; the text holds the email without the leading "@" and s1 is not a
\* recipient
C15_Witness ==
    /\ IsNotify
    /\ last.status = 200
    /\ last.text = <<Hello, Chars("s1@student.com")>>
    /\ \E r \in Students : /\ r.email = "s1@student.com"
                           /\ ~r.isSuspended
    /\ "s1@student.com" \notin ActiveRosterOfLast
    /\ "s1@student.com" \notin Range(last.body)

\* C16: suspending an existing student answers 204, sets the isSuspended
\* flag of that student's row and changes nothing else: the other rows, their
\* flags and the rosters stay as they were; when the student was suspended
\* already the stored rows do not change at all.
C16_SuspendSetsOnlyTheFlag ==
    [][\A e \in Emails :
           (last'.op = "suspend" /\ last'.emails = <<e>> /\ StudentsOf(e) # {})
               => /\ last'.status = 204
                  /\ links' = links
                  /\ users' = {IF r \in StudentsOf(e) THEN [r EXCEPT !.isSuspended = TRUE]
                               ELSE r : r \in users}
                  /\ (\A r \in StudentsOf(e) : r.isSuspended) => users' = users]_vars

\* a student was suspended while another student of the same roster stays
\* not suspended
C16_Witness ==
    /\ last.op = "suspend"
    /\ last.status = 204
    /\ last.changed
    /\ \E t \in Teachers : \E r, q \in Students :
          /\ r \in StudentsOf(last.emails[1])
          /\ r.isSuspended
          /\ ~q.isSuspended
          /\ <<t.id, r.id>> \in links
          /\ <<t.id, q.id>> \in links

\* C17: suspending an email under which no Student is stored answers 404 and
\* leaves the stored rows and rosters unchanged: no row is created and no
\* flag changes.
C17_SuspendUnknownStudent ==
    [][\A e \in Emails :
           (last'.op = "suspend" /\ last'.emails = <<e>> /\ StudentsOf(e) = {})
               => /\ last'.status = 404
                  /\ users' = users
                  /\ links' = links]_vars

\* the email of the request is stored as a Teacher, students are stored, and
\* the answer is 404 with nothing changed
C17_Witness ==
    /\ last.op = "suspend"
    /\ last.status = 404
    /\ ~last.changed
    /\ TeachersOf(last.emails[1]) # {}
    /\ StudentsOf(last.emails[1]) = {}
    /\ \E r \in Students : ~r.isSuspended

\* the students stored on the roster of a teacher row, as entities
RosterEntities(t) == {StudentEntity(r) : r \in {q \in Students : <<t.id, q.id>> \in links}}

\* C18: Teacher.findOrCreate(email) returns the Teacher stored under
\* lowercase(email) with its id and its whole roster when there is one, and
\* otherwise a new Teacher with no id, the email lowercase(email) and an empty
\* roster; the call leaves the stored rows and rosters unchanged.
C18_TeacherFindOrCreate ==
    [][last'.op = "Teacher.findOrCreate"
           => LET t == last'.ents[1]
                  stored == {r \in Teachers : r.email = toLowerCase(last'.teacher)}
              IN /\ users' = users
                 /\ links' = links
                 /\ stored # {} =>
                        \E r \in stored : /\ t.id = r.id
                                          /\ t.id > 0
                                          /\ t.email = r.email
                                          /\ Range(t.students) = RosterEntities(r)
                                          /\ Len(t.students) = Cardinality(RosterEntities(r))
                 /\ stored = {} =>
                        t = [id |-> 0, email |-> toLowerCase(last'.teacher),
                             students |-> <<>>]]_vars

\* the call was made with an upper-case email and answered the stored
\* teacher with a roster of two students
C18_Witness ==
    /\ last.op = "Teacher.findOrCreate"
    /\ last.teacher \in UpperEmails
    /\ last.ents[1].id > 0
    /\ last.ents[1].email = toLowerCase(last.teacher)
    /\ Len(last.ents[1].students) = 2

IsFindOrCreateByEmails == last.op = "Student.findOrCreateByEmails"

\* the Student a call of findOrCreateByEmails owes to one input email: the
\* stored one, or a new one
StudentFor(email) ==
    LET stored == {r \in Students : r.email = toLowerCase(email)}
    IN IF stored # {} THEN StudentEntity(CHOOSE r \in stored : TRUE)
       ELSE [id |-> 0, email |-> toLowerCase(email), isSuspended |-> FALSE]

\* C19: Student.findOrCreateByEmails answers the empty list for the empty
\* list and otherwise, as a set, one entry per distinct lowercased input
\* email: the stored Student as it is stored (id and isSuspended), or a new
\* Student with no id, the lowercase email and isSuspended false; the call
\* leaves the stored rows and rosters unchanged.
C19_StudentsFindOrCreate ==
    [][last'.op = "Student.findOrCreateByEmails"
           => /\ users' = users
              /\ links' = links
              /\ last'.emails = <<>> => last'.ents = <<>>
              /\ Range(last'.ents) = {StudentFor(e) : e \in Range(last'.emails)}
              /\ Cardinality(Range(last'.ents))
                     = Cardinality({toLowerCase(e) : e \in Range(last'.emails)})]_vars

\* the call named, in upper case, a stored and suspended student and an
\* email that is not stored: it answered the stored student, still suspended,
\* and a new one
C19_Witness ==
    /\ IsFindOrCreateByEmails
    /\ last.emails = <<"T1@TEACHER.COM", SecondStudent>>
    /\ \E x \in Range(last.ents) : x.id > 0 /\ x.email = "t1@teacher.com" /\ x.isSuspended
    /\ [id |-> 0, email |-> SecondStudent, isSuspended |-> FALSE] \in Range(last.ents)
    /\ Len(last.ents) = 2

\* C20, as claimed: the result of Student.findOrCreateByEmails is as long as
\* the input list, for every input.
C20_OnePerInputEmail ==
    IsFindOrCreateByEmails => Len(last.ents) = Len(last.emails)

\* the stored Students a list of emails names
StoredStudentsNamed(emails) ==
    {r \in Students : \E i \in 1..Len(emails) : r.email = toLowerCase(emails[i])}

\* the entries of a list of emails that name no stored Student
EntriesNotStored(emails) ==
    {i \in 1..Len(emails) : \A r \in Students : r.email # toLowerCase(emails[i])}

\* C20, amended: the result of Student.findOrCreateByEmails holds each stored
\* Student the input names once, however often the input repeats the email,
\* and one new Student per input entry whose email is not stored; its length
\* is the length of the input list when no stored email is repeated.
C20_LengthOfResult ==
    IsFindOrCreateByEmails
        => /\ Len(last.ents) = Cardinality(StoredStudentsNamed(last.emails))
                                   + Cardinality(EntriesNotStored(last.emails))
           /\ (\A i, j \in 1..Len(last.emails) :
                   (i # j /\ toLowerCase(last.emails[i]) = toLowerCase(last.emails[j]))
                       => i \in EntriesNotStored(last.emails))
                  => Len(last.ents) = Len(last.emails)

\* the call named a stored student twice and answered it once
C20_Witness ==
    /\ IsFindOrCreateByEmails
    /\ last.emails = <<"s1@student.com", "s1@student.com">>
    /\ StudentsOf("s1@student.com") # {}
    /\ Len(last.ents) = 1


(* ---------------------------- C21 .. C27 ------------------------------- *)
\* the roster stored for the teacher email of a request in the tables u, l,
\* as the emails of its students; empty when no such teacher is stored
RosterIn(u, l, email) ==
    LET rows == {t \in u : t.type = TeacherType /\ t.email = toLowerCase(email)}
    IN IF rows = {} THEN <<>>
       ELSE MapSeq(LAMBDA s : s.email, LoadStudents(u, l, (CHOOSE t \in rows : TRUE).id))

\* the lowercased emails of a request that are not in the sequence old, each
\* once, in the order of the request
NewlyRegistered(old, emails) ==
    uniqueInOrder(SelectSeq(MapSeq(toLowerCase, emails), LAMBDA e : e \notin Range(old)))

\* C21, as claimed: a successful register leaves the roster as it was,
\* followed by the newly registered students in the order of their emails in
\* the request.
C21_AppendsInRequestOrder ==
    [][(last'.op = "register" /\ last'.status = 204)
           => LET old == RosterIn(users, links, last'.teacher)
              IN RosterIn(users', links', last'.teacher)
                     = old \o NewlyRegistered(old, last'.emails)]_vars

\* the lowercased emails of a request under which no row is stored, in the
\* order of the request
NotYetStored(emails) ==
    SelectSeq(MapSeq(toLowerCase, emails), LAMBDA e : \A r \in users : r.email # e)

\* C21, amended: a successful register keeps the existing roster members in
\* their relative order and adds the requested students; the students that
\* were not yet stored come last, in the order of their emails in the
\* request, while a newly registered student that was already stored takes
\* its place by storage order, wherever its email is in the request.
C21_KeepsMembersAppendsNew ==
    [][(last'.op = "register" /\ last'.status = 204)
           => LET old == RosterIn(users, links, last'.teacher)
                  new == RosterIn(users', links', last'.teacher)
                  fresh == NotYetStored(last'.emails)
              IN /\ Range(new) = Range(old) \cup {toLowerCase(e) : e \in Range(last'.emails)}
                 /\ SelectSeq(new, LAMBDA e : e \in Range(old)) = old
                 /\ Len(fresh) <= Len(new)
                 /\ SubSeq(new, Len(new) - Len(fresh) + 1, Len(new)) = fresh]_vars

\* the request named a not yet stored student before a stored one, on a
\* roster that held neither: the stored one is first on the roster
C21_Witness ==
    /\ IsRegister /\ last.status = 204 /\ last.changed
    /\ last.teacher = "t2@teacher.com"
    /\ last.emails = <<SecondStudent, "s1@student.com">>
    /\ RosterIn(users, links, last.teacher) = <<"s1@student.com", SecondStudent>>
    /\ \E t \in TeachersOf("t1@teacher.com") : \E r \in StudentsOf("s1@student.com") :
          <<t.id, r.id>> \in links

\* the step in which the register request of slot p saves its teacher and
\* is answered
SavingRegister(p) ==
    /\ inflight[p].op = "register"
    /\ inflight[p].pc = "save"
    /\ inflight'[p].op = "idle"

\* C22: register is all-or-nothing: the step that saves the teacher answers
\* 204 or 500, and when it answers 500 the stored rows and rosters are exactly
\* as before the step: no teacher row, no student row and no roster link of
\* the request is left behind.
C22_RegisterAllOrNothing ==
    [][\A p \in 1..MaxInFlight :
           SavingRegister(p)
               => /\ last'.op = "register"
                  /\ last'.status \in {204, 500}
                  /\ last'.status = 500 => (users' = users /\ links' = links)]_vars

\* a register request whose teacher was new was answered 500 and no row is
\* stored under the teacher email
C22_Witness ==
    /\ IsRegister /\ last.status = 500
    /\ users # {}
    /\ \A r \in users : ~CollateEq(r.email, last.teacher)

\* the register request of slot p is about to insert a row under an email
\* that is stored by now: its teacher or one of its students was not found
\* when the request looked it up
CreatesStoredEmail(p) ==
    LET req == inflight[p]
    IN \/ req.teacherEnt.id = 0 /\ \E r \in users : CollateEq(r.email, req.teacherEnt.email)
       \/ \E i \in 1..Len(req.studentEnts) :
             /\ req.studentEnts[i].id = 0
             /\ \E r \in users : CollateEq(r.email, req.studentEnts[i].email)

\* C23: when a register request saves an identity that it found not stored
\* and that another request has created in the meantime, the request is
\* answered 500, stores nothing, and no email is stored for two identities.
C23_CreationRaceLoserGets500 ==
    [][\A p \in 1..MaxInFlight :
           (SavingRegister(p) /\ CreatesStoredEmail(p))
               => /\ last'.op = "register"
                  /\ last'.status = 500
                  /\ users' = users
                  /\ \A e \in LowerEmails : Cardinality({r \in users' : r.email = e}) <= 1]_vars

\* two register requests for different teachers created the same student:
\* the student is stored once, on the roster of the winner, and the loser was
\* answered 500 with its teacher not stored
C23_Witness ==
    /\ IsRegister /\ last.status = 500
    /\ \A r \in users : ~CollateEq(r.email, last.teacher)
    /\ Len(last.emails) = 1
    /\ Cardinality(StudentsOf(last.emails[1])) = 1
    /\ \E t \in Teachers : \E r \in StudentsOf(last.emails[1]) : <<t.id, r.id>> \in links

\* C24: a roster only grows: a student on the stored roster of a teacher is
\* on it after every step, under every interleaving of the register and
\* suspend steps and the queries.
C24_RosterOnlyGrows ==
    [][\A pair \in links : pair \in links']_vars

\* C25: suspension is one-directional: a row whose isSuspended is true has
\* it true after every step, under every interleaving of the register and
\* suspend steps and the queries.
C25_SuspensionOneDirectional ==
    [][\A r \in users : r.isSuspended => \A q \in users' : q.id = r.id => q.isSuspended]_vars

\* C26: storage is changed only by successful writes: a step that answers a
\* request with 400 or 404, and every step that answers a commonstudents or a
\* retrievefornotifications request, leaves the stored rows and rosters as
\* they were.
C26_OnlySuccessfulWritesMutate ==
    [][(\/ last'.status \in {400, 404}
        \/ last'.op \in {"commonstudents", "retrievefornotifications"})
           => (users' = users /\ links' = links)]_vars

\* a register request with a teacher that is not an email, naming a student
\* that is not stored yet, was answered 400 while other rows are stored
C26_Witness ==
    /\ IsRegister /\ last.status = 400
    /\ ~isEmail(last.teacher)
    /\ users # {}
    /\ \A r \in users : r.email # NotEmail
    /\ \A i \in 1..Len(last.emails) : \A r \in users : ~CollateEq(r.email, last.emails[i])

\* C27: a well-formed register request in which a student email equals the
\* teacher email up to letter case is answered 400 and changes nothing.
C27_SelfRegistrationAnyCase ==
    (/\ IsRegister
     /\ registerStudentsValid(last.teacher, last.emails)
     /\ \E i \in 1..Len(last.emails) : CollateEq(last.teacher, last.emails[i]))
        => (last.status = 400 /\ ~last.changed)

=============================================================================
